---- MODULE Spec2Model ----
(***************************************************************************)
(* Model of src/slideshow.py: read_input (slide builder), interest_factor  *)
(* (transition scorer), optimize_slideshow (model builder, solver call and *)
(* sequence reconstruction), write_output and the __main__ block.          *)
(*                                                                         *)
(* Python indices are kept 0-based; TLA+ sequences are 1-based, so the     *)
(* Python list element l[i] is the TLA+ element l[i + 1].                  *)
(***************************************************************************)
EXTENDS Integers, Sequences, FiniteSets, TLC

\* ------------------------------------------------------------------ bounds

\* Largest number of item lines of an input file (runs with the real solver).
MaxItems == 4

\* Largest number of item lines of an input file in the runs where the solver's
\* answer is an arbitrary 0/1 matrix.
MaxAnyItems == 3

\* Largest value tried for the ordering variables u (Gurobi: integer, lb = 0,
\* no upper bound).
UMax == 4

\* Cap on the length of `solution` in the guard of the walk; the code reaches
\* at most num_slides + 1 (see WalkWithinCap).
MaxWalk == 6

\* Tag universe and the tag sets an item line may carry.
Tags == {"a", "b", "c"}
TagChoices == {{"a"}, {"a", "b"}, {"b", "c"}}

\* The tag sets of an item line in the runs where the solver's answer is an
\* arbitrary 0/1 matrix (the reconstruction reads no tag).
AnyTagChoices == {{"a", "b"}, {"b", "c"}}

\* ------------------------------------------------------------------- state

VARIABLES
    pc,          \* position of the __main__ block / optimize_slideshow
    file,        \* the input file named on the command line
    slides,      \* result of read_input
    status,      \* model.status after model.optimize()
    solves,      \* number of calls of model.optimize()
    x,           \* x[i, j].x for i # j, after the solve
    order,       \* order[i], Python list of num_slides entries
    used,        \* the set `used`
    first_slide, \* the variable first_slide
    solution,    \* the list `solution` (slide indices)
    visited,     \* the set `visited`
    abort,       \* why the run was aborted ("none" while it was not)
    main_solution, \* what optimize_slideshow returned to the __main__ block
    output,      \* the output file: <<>> while not written
    tags1, tags2,\* arguments of a direct call of interest_factor
    result       \* what that call returned

vars == <<pc, file, slides, status, solves, x, order, used, first_slide,
          solution, visited, abort, main_solution, output, tags1, tags2,
          result>>

\* ------------------------------------------------------------ Python values

\* order[i] = -1: slide i has no successor (line 93).
NoSuccessor == -1

\* first_slide is None (line 104); slide indices are >= 0.
None == -2

\* A Python value handed to interest_factor: a set of tags, or a non-set
\* collection (list, tuple) of tags.
PySet(s) == [isSet |-> TRUE, elems |-> s]
PyList(s) == [isSet |-> FALSE, elems |-> s]

Min2(a, b) == IF a <= b THEN a ELSE b
min(a, b, c) == Min2(a, Min2(b, c))

\* --------------------------------------------------------------- read_input

ItemLines(T) == [orientation : {"H", "V"}, tags : T]

SeqsUpTo(S, n) == UNION {[1..k -> S] : k \in 0..n}

\* An input file: absent, or a header line and item lines. count_ok is whether
\* int(lines[0].strip()) succeeds; count is its value.
Files(n, T) ==
    {[exists |-> FALSE, count_ok |-> FALSE, count |-> 0, lines |-> <<>>]}
    \cup {[exists |-> TRUE, count_ok |-> FALSE, count |-> 0, lines |-> l] :
            l \in SeqsUpTo(ItemLines(T), 1)}
    \cup {[exists |-> TRUE, count_ok |-> TRUE, count |-> c, lines |-> l] :
            c \in 0..n, l \in SeqsUpTo(ItemLines(T), n)}

\* open() raises FileNotFoundError, int() raises ValueError, lines[i] raises
\* IndexError when the header announces more items than there are lines.
read_raises(f) ==
    \/ ~f.exists
    \/ ~f.count_ok
    \/ f.count > Len(f.lines)

\* The loop of lines 18-26 after num iterations: the (position, tags) entries
\* appended to `horizontal` (isH) or to `vertical` (~isH), in order.
RECURSIVE collect(_, _, _)
collect(lines, num, isH) ==
    IF num = 0 THEN <<>>
    ELSE LET rest == collect(lines, num - 1, isH)
             it == lines[num]
         IN IF (it.orientation = "H") = isH
            THEN Append(rest, [pos |-> num - 1, tags |-> it.tags])
            ELSE rest

horizontal(f) == collect(f.lines, f.count, TRUE)
vertical(f) == collect(f.lines, f.count, FALSE)

\* range(0, n - 1, 2) as a sequence.
PairRangeStep1(n) == [k \in 1..(IF n > 0 THEN n - 1 ELSE 0) |-> k - 1]
PairRange(n) == [k \in 1..(n \div 2) |-> 2 * (k - 1)]

vertical_pairs(v) ==
    LET r == PairRange(Len(v))
    IN [k \in 1..Len(r) |->
            LET v1 == v[r[k] + 1]
                v2 == v[r[k] + 2]
            IN [pos |-> <<v1.pos, v2.pos>>, tags |-> v1.tags \cup v2.tags]]

\* A horizontal entry (i - 1, tags) is a slide with one position.
simple(h) == [k \in 1..Len(h) |-> [pos |-> <<h[k].pos>>, tags |-> h[k].tags]]

read_input(f) == simple(horizontal(f)) \o vertical_pairs(vertical(f))

\* ---------------------------------------------------------- interest_factor

\* Lines 37-49. The two isinstance checks log an error and return 0.
interest_factor_two_terms(t1, t2) ==
    IF ~t1.isSet THEN 0
    ELSE IF ~t2.isSet THEN 0
    ELSE Min2(Cardinality(t1.elems \cap t2.elems),
              Cardinality(t1.elems \ t2.elems))
interest_factor(t1, t2) ==
    IF ~t1.isSet THEN 0
    ELSE IF ~t2.isSet THEN 0
    ELSE min(Cardinality(t1.elems \cap t2.elems),
             Cardinality(t1.elems \ t2.elems),
             Cardinality(t2.elems \ t1.elems))

\* ------------------------------------------------- the optimisation model

num_slides == Len(slides)

Index(n) == 0..(n - 1)

\* The off-diagonal variables x[i, j]. addVars(num_slides, num_slides) also
\* creates x[i, i], which no constraint, objective term or later read uses.
Pairs(n) == {p \in Index(n) \X Index(n) : p[1] # p[2]}

Matrices(n) == [Pairs(n) -> {0, 1}]

RECURSIVE quicksum(_, _)
quicksum(f, S) ==
    IF S = {} THEN 0
    ELSE LET e == CHOOSE e \in S : TRUE
         IN f[e] + quicksum(f, S \ {e})

\* Lines 61-65: the objective value of the assignment xm for the slides sl.
Objective(xm, sl) ==
    LET n == Len(sl)
        term == [p \in Pairs(n) |->
                    interest_factor(PySet(sl[p[1] + 1].tags),
                                    PySet(sl[p[2] + 1].tags)) * xm[p]]
    IN quicksum(term, Pairs(n))

\* Line 69, constraint slide_out_i.
slide_out(xm, n, i) ==
    quicksum([j \in Index(n) \ {i} |-> xm[<<i, j>>]], Index(n) \ {i}) = 1

\* Line 70, constraint slide_in_i.
slide_in(xm, n, i) ==
    quicksum([j \in Index(n) \ {i} |-> xm[<<j, i>>]], Index(n) \ {i}) = 1

\* Line 78, for one pair i, j.
order_constr_weak(xm, u, n, i, j) == u[i] - u[j] + n * xm[<<i, j>>] <= n
order_constr(xm, u, n, i, j) == u[i] - u[j] + n * xm[<<i, j>>] <= n - 1

\* Lines 73-78.
order_constrs(xm, u, n) ==
    n > 1 =>
        \A i \in 1..(n - 1) : \A j \in 1..(n - 1) :
            i # j => order_constr(xm, u, n, i, j)

\* Lines 68-78: xm satisfies every constraint for some value of the u.
Feasible(xm, n) ==
    /\ \A i \in Index(n) : slide_out(xm, n, i) /\ slide_in(xm, n, i)
    /\ \E u \in [Index(n) -> 0..UMax] : order_constrs(xm, u, n)

\* The feasible assignments for each number of slides.
FeasibleX == [n \in 0..MaxItems |-> {xm \in Matrices(n) : Feasible(xm, n)}]

\* What model.optimize() may leave in the x[i, j].x when the status is
\* OPTIMAL: a feasible assignment of maximal objective value.
Optimal(sl) ==
    LET F == FeasibleX[Len(sl)]
    IN {xm \in F : \A y \in F : Objective(y, sl) <= Objective(xm, sl)}

NoValues(n) == [p \in Pairs(n) |-> 0]

\* ------------------------------------------------------------ the program

\* sys.exit(1) raises SystemExit, which `except Exception` (line 153) does
\* not catch: the process ends at once.
sys_exit_ignored == "write"
sys_exit == "exit1"

\* Line 141.
ReadInput ==
    /\ pc = "read"
    /\ IF read_raises(file)
       THEN /\ pc' = "caught"
            /\ abort' = "read_error"
            /\ UNCHANGED slides
       ELSE /\ pc' = "optimize"
            /\ slides' = read_input(file)
            /\ UNCHANGED abort
    /\ UNCHANGED <<file, status, solves, x, order, used, first_slide, solution,
                   visited, main_solution, output, tags1, tags2, result>>

\* Lines 53-80: build the model and call the solver.
Optimize ==
    /\ pc = "optimize"
    /\ solves' = solves + 1
    /\ IF FeasibleX[num_slides] = {}
       THEN /\ status' \in {"INFEASIBLE", "INF_OR_UNBD"}
            /\ x' = NoValues(num_slides)
       ELSE /\ status' = "OPTIMAL"
            /\ x' \in Optimal(slides)
    /\ pc' = "check_status"
    /\ UNCHANGED <<file, slides, order, used, first_slide, solution, visited,
                   abort, main_solution, output, tags1, tags2, result>>

\* Lines 53-80 with a solver that may answer anything: any status, and with
\* OPTIMAL any 0/1 matrix.
OptimizeAny ==
    /\ pc = "optimize"
    /\ solves' = solves + 1
    /\ \/ /\ status' \in {"INFEASIBLE", "INF_OR_UNBD"}
          /\ x' = NoValues(num_slides)
       \/ /\ status' = "OPTIMAL"
          /\ x' \in Matrices(num_slides)
    /\ pc' = "check_status"
    /\ UNCHANGED <<file, slides, order, used, first_slide, solution, visited,
                   abort, main_solution, output, tags1, tags2, result>>

\* Lines 82-84.
CheckStatus ==
    /\ pc = "check_status"
    /\ IF status # "OPTIMAL"
       THEN pc' = sys_exit /\ abort' = "status"
       ELSE pc' = "build_order" /\ UNCHANGED abort
    /\ UNCHANGED <<file, slides, status, solves, x, order, used, first_slide,
                   solution, visited, main_solution, output, tags1, tags2,
                   result>>

\* Lines 96-101: the last j of the scan with x[i, j] = 1 stays in order[i].
successors(xm, n, i) == {j \in Index(n) \ {i} : xm[<<i, j>>] = 1}

Max(S) == CHOOSE m \in S : \A k \in S : k <= m
Min(S) == CHOOSE m \in S : \A k \in S : m <= k

order_of(xm, n) ==
    [i \in Index(n) |->
        IF successors(xm, n, i) = {} THEN NoSuccessor
        ELSE Max(successors(xm, n, i))]

used_of(xm, n) == {j \in Index(n) : \E i \in Index(n) \ {j} : xm[<<i, j>>] = 1}

\* Lines 93-101.
BuildOrder ==
    /\ pc = "build_order"
    /\ order' = order_of(x, num_slides)
    /\ used' = used_of(x, num_slides)
    /\ pc' = "find_first"
    /\ UNCHANGED <<file, slides, status, solves, x, first_slide, solution,
                   visited, abort, main_solution, output, tags1, tags2, result>>

\* Line 104: next(i for i in range(num_slides) if i not in used, None).
first_of(n, u) ==
    IF Index(n) \ u = {} THEN None ELSE Min(Index(n) \ u)

\* Lines 104-112.
FindFirst ==
    /\ pc = "find_first"
    /\ first_slide' = first_of(num_slides, used)
    /\ IF first_slide' = None
       THEN /\ pc' = sys_exit
            /\ abort' = "no_first"
            /\ UNCHANGED <<solution, visited>>
       ELSE /\ pc' = "walk"
            /\ solution' = <<first_slide'>>
            /\ visited' = {}
            /\ UNCHANGED abort
    /\ UNCHANGED <<file, slides, status, solves, x, order, used,
                   main_solution, output, tags1, tags2, result>>

\* Line 115.
revisit_unchecked(f, v) == FALSE
revisit(f, v) == f \in v

\* Lines 114-120: the loop test and one iteration.
Walk ==
    /\ pc = "walk"
    /\ Len(solution) < MaxWalk
    /\ IF order[first_slide] = NoSuccessor
       THEN /\ pc' = "format"
            /\ UNCHANGED <<first_slide, solution, visited, abort>>
       ELSE IF revisit(first_slide, visited)
       THEN /\ pc' = sys_exit
            /\ abort' = "cycle"
            /\ UNCHANGED <<first_slide, solution, visited>>
       ELSE /\ visited' = visited \cup {first_slide}
            /\ first_slide' = order[first_slide]
            /\ solution' = Append(solution, order[first_slide])
            /\ UNCHANGED <<pc, abort>>
    /\ UNCHANGED <<file, slides, status, solves, x, order, used,
                   main_solution, output, tags1, tags2, result>>

\* Line 123: "p1 p2" for a slide of three fields, str(p) otherwise; the
\* string is kept as the sequence of the positions it shows.
format(sl, sol) == [k \in 1..Len(sol) |-> sl[sol[k] + 1].pos]

\* Lines 123 and 145.
Return ==
    /\ pc = "format"
    /\ main_solution' = format(slides, solution)
    /\ pc' = "write"
    /\ UNCHANGED <<file, slides, status, solves, x, order, used, first_slide,
                   solution, visited, abort, output, tags1, tags2, result>>

\* Lines 125-130 and 148.
write_output(sol) == <<[count |-> Len(sol), lines |-> sol]>>

WriteOutput ==
    /\ pc = "write"
    /\ output' = write_output(main_solution)
    /\ pc' = "done"
    /\ UNCHANGED <<file, slides, status, solves, x, order, used, first_slide,
                   solution, visited, abort, main_solution, tags1, tags2,
                   result>>

\* A direct call interest_factor(tags1, tags2).
PyValues == {PySet(s) : s \in SUBSET Tags} \cup {PyList(s) : s \in SUBSET Tags}

CallInterestFactor ==
    /\ pc = "call"
    /\ result' = [called |-> TRUE, raised |-> FALSE,
                  value |-> interest_factor(tags1, tags2)]
    /\ pc' = "called"
    /\ UNCHANGED <<file, slides, status, solves, x, order, used, first_slide,
                   solution, visited, abort, main_solution, output, tags1,
                   tags2>>

\* ---------------------------------------------------------- specifications

NoFile == [exists |-> FALSE, count_ok |-> FALSE, count |-> 0, lines |-> <<>>]
NoResult == [called |-> FALSE, raised |-> FALSE, value |-> 0]

Start(f, p, t1, t2) ==
    /\ pc = p
    /\ file = f
    /\ slides = <<>>
    /\ status = "LOADED"
    /\ solves = 0
    /\ x = <<>>
    /\ order = <<>>
    /\ used = {}
    /\ first_slide = None
    /\ solution = <<>>
    /\ visited = {}
    /\ abort = "none"
    /\ main_solution = <<>>
    /\ output = <<>>
    /\ tags1 = t1
    /\ tags2 = t2
    /\ result = NoResult

\* The program on an input file, with a solver that honours the model.
Init == \E f \in Files(MaxItems, TagChoices) : Start(f, "read", PySet({}), PySet({}))

\* Walk, Return and WriteOutput are no disjuncts here: no state of Spec
\* enables them (NeverWalks).
Next == ReadInput \/ Optimize \/ CheckStatus \/ BuildOrder \/ FindFirst

Spec == Init /\ [][Next]_vars

\* The program on an input file, with a solver that may answer anything.
InitAny ==
    \E f \in Files(MaxAnyItems, AnyTagChoices) :
        Start(f, "read", PySet({}), PySet({}))

NextAny ==
    \/ ReadInput \/ OptimizeAny \/ CheckStatus \/ BuildOrder \/ FindFirst
    \/ Walk \/ Return \/ WriteOutput

SpecAny == InitAny /\ [][NextAny]_vars

\* The interpreter runs the single thread until the process ends.
FairSpecAny == SpecAny /\ WF_vars(NextAny)

\* Direct calls of interest_factor.
InitScore ==
    \E t1 \in PyValues : \E t2 \in PyValues : Start(NoFile, "call", t1, t2)

NextScore == CallInterestFactor

SpecScore == InitScore /\ [][NextScore]_vars

\* Under Spec the reconstruction never gets past the search for a start.
NeverWalks == pc \notin {"walk", "format", "write", "done"}

\* The cap in the guard of Walk never stops the loop.
WalkWithinCap == Len(solution) <= num_slides + 1 /\ num_slides + 1 < MaxWalk

\* ------------------------------------------------------------------ claims

\* The run is over: normal end, sys.exit(1), or an exception logged by the
\* __main__ block.
Ended == {"done", "exit1", "caught"}

\* sol lists every slide index 0..n-1 exactly once.
IsOrdering(sol, n) ==
    /\ Len(sol) = n
    /\ \A i \in Index(n) : Cardinality({k \in 1..Len(sol) : sol[k] = i}) = 1

\* C1: for N >= 2 and a 0/1 matrix that satisfies the out-degree, in-degree
\* and cycle-elimination constraints, the reconstruction does not abort and
\* returns a sequence of N slide indices holding each of 0..N-1 once.
C1_FeasibleMatrixIsReconstructed ==
    (num_slides >= 2 /\ status = "OPTIMAL" /\ Feasible(x, num_slides)) =>
        /\ abort = "none"
        /\ pc \in {"format", "write", "done"} => IsOrdering(solution, num_slides)

\* C2: with exactly one slide the model is feasible and the run ends normally
\* with the output "1" and that slide's line.
C2_SingleSlideIsWritten ==
    num_slides = 1 =>
        /\ solves > 0 => status = "OPTIMAL"
        /\ pc \in Ended =>
              /\ pc = "done"
              /\ output = <<[count |-> 1, lines |-> <<slides[1].pos>>]>>

\* C3: with an empty slide list the run ends normally with the output "0" and
\* no slide line, and model.optimize() is never called.
C3_EmptyInputIsWritten ==
    (num_slides = 0 /\ pc \in {"done", "exit1"}) =>
        /\ pc = "done"
        /\ output = <<[count |-> 0, lines |-> <<>>]>>
        /\ solves = 0

\* The positions of the item lines read_input reads, by orientation.
HPos == {p \in 0..(file.count - 1) : file.lines[p + 1].orientation = "H"}
VPos == {p \in 0..(file.count - 1) : file.lines[p + 1].orientation # "H"}

\* The n-th smallest element of S.
Nth(S, n) == CHOOSE p \in S : Cardinality({q \in S : q < p}) = n - 1

\* The number of slides that show item position p.
Shown(p) ==
    Cardinality({s \in 1..Len(slides) :
                    \E k \in 1..Len(slides[s].pos) : slides[s].pos[k] = p})

\* C4: read_input returns m + floor(k/2) slides: the m simple slides in item
\* order, then the composite slides of consecutive pairable items (positions
\* in pairing order, tags the union); every pairable item is in exactly one
\* slide, except the last one when k is odd, and no item is in two slides.
C4_SlideBuilder ==
    pc \notin {"read", "caught", "call", "called"} =>
        LET m == Cardinality(HPos)
            k == Cardinality(VPos)
        IN /\ Len(slides) = m + (k \div 2)
           /\ \A s \in 1..m :
                 /\ slides[s].pos = <<Nth(HPos, s)>>
                 /\ slides[s].tags = file.lines[Nth(HPos, s) + 1].tags
           /\ \A c \in 1..(k \div 2) :
                 LET p1 == Nth(VPos, 2 * c - 1)
                     p2 == Nth(VPos, 2 * c)
                 IN /\ slides[m + c].pos = <<p1, p2>>
                    /\ slides[m + c].tags =
                          file.lines[p1 + 1].tags \cup file.lines[p2 + 1].tags
           /\ \A p \in HPos : Shown(p) = 1
           /\ \A p \in VPos :
                 Shown(p) = IF k % 2 = 1 /\ p = Nth(VPos, k) THEN 0 ELSE 1

C4_OddPairablesRead ==
    /\ pc = "optimize"
    /\ Cardinality(VPos) = 3
    /\ Cardinality(HPos) = 1
    /\ Len(slides) = 2

\* C5: the output file is written only after optimize_slideshow returned
\* normally; after a non-optimal status, a missing start, a detected cycle or
\* an error while reading, the run ends with no output file.
C5_WriteOnlyAfterNormalReturn ==
    /\ output # <<>> =>
          /\ abort = "none"
          /\ ~read_raises(file)
          /\ status = "OPTIMAL"
          /\ first_slide # None
          /\ output = write_output(format(slides, solution))
    /\ abort # "none" => output = <<>>

C5_AbortedWithoutOutput ==
    /\ pc = "exit1"
    /\ abort = "status"
    /\ output = <<>>

\* C6: a call of interest_factor with a first or second argument that is not
\* a set raises an error; it does not return a score.
C6_NonSetRaises ==
    (result.called /\ (~tags1.isSet \/ ~tags2.isSet)) => result.raised

\* C7: interest_factor(A, B) = interest_factor(B, A) for all tag sets A, B.
C7_ScoreSymmetric ==
    (result.called /\ tags1.isSet /\ tags2.isSet) =>
        result.value = interest_factor(tags2, tags1)

C7_PositiveScore ==
    /\ result.called
    /\ tags1.isSet /\ tags2.isSet
    /\ tags1 # tags2
    /\ result.value = 1

\* The slides reached from slide i in at most k steps along the 1 entries.
RECURSIVE Reached(_, _, _, _)
Reached(xm, n, i, k) ==
    IF k = 0 THEN {i}
    ELSE {i} \cup UNION {Reached(xm, n, j, k - 1) :
                            j \in {j \in Index(n) \ {i} : xm[<<i, j>>] = 1}}

\* The 1 entries of xm form one cycle through all n slides.
OneTour(xm, n) ==
    /\ \A i \in Index(n) :
          /\ Cardinality({j \in Index(n) \ {i} : xm[<<i, j>>] = 1}) = 1
          /\ Cardinality({j \in Index(n) \ {i} : xm[<<j, i>>] = 1}) = 1
    /\ Reached(xm, n, 0, n - 1) = Index(n)

\* C8: for N >= 2 every assignment that satisfies the out-degree, in-degree
\* and ordering constraints is a single cycle through all N slides, never two
\* or more disjoint cycles.
C8_FeasibleIsOneTour ==
    (num_slides >= 2 /\ status = "OPTIMAL") => OneTour(x, num_slides)

C8_FourSlidesSolved ==
    /\ num_slides = 4
    /\ status = "OPTIMAL"
    /\ pc = "check_status"

\* C9: for any 0/1 matrix the reconstruction either aborts or returns a
\* sequence of length N holding each slide index once.
C9_ReturnsOrderingOrAborts ==
    pc \in {"format", "write", "done"} => IsOrdering(solution, num_slides)

\* C10: once a start is found the walk ends: it reaches a slide without
\* successor or aborts on a revisit.
C10_WalkTerminates == (pc = "walk") ~> (pc \in {"format", "exit1"})

C10_CycleReachedAndAborted ==
    /\ pc = "exit1"
    /\ abort = "cycle"
    /\ Len(solution) = num_slides + 1

====
